---- MODULE Spec2Model ----
(***************************************************************************)
(* Risk-gated order pipeline of the trading engine: the domain model       *)
(* (Order, Position, Portfolio), the RiskManager with its single mutex,    *)
(* and the TradingEngine control loop.                                     *)
(*                                                                         *)
(* Numbers.  The program computes in IEEE doubles.  Every quantity, price  *)
(* and cash amount used here is an integer, and a limit fraction is the    *)
(* exact rational num/den, so a comparison  x / y > limit  is decided      *)
(* exactly, including the IEEE results of a division by zero (+inf, -inf,  *)
(* NaN).  Rounding of doubles is not modelled.                             *)
(***************************************************************************)
EXTENDS Integers, Sequences, FiniteSets, TLC

VARIABLES
    build,             \* what relocking the std::mutex the thread owns does
    limits_,           \* RiskManager::limits_
    mutex_,            \* RiskManager::mutex_ : its owner, or NoThread
    current_prices_,   \* RiskManager::current_prices_
    current_metrics_,  \* RiskManager::current_metrics_
    portfolio,         \* the Portfolio handed to the RiskManager
    trades,            \* number of Portfolio::updatePosition calls so far
    pc,                \* per thread: position inside a RiskManager method
    caller,            \* per thread: who called updateRiskMetrics
    order,             \* per thread: checkOrderRisk's order argument
    position_value,    \* per thread: checkOrderRisk's local
    portfolio_value,   \* per thread: checkOrderRisk's local
    result,            \* per thread: checkOrderRisk's return value
    logged,            \* per thread: the message checkOrderRisk logged
    evaluated,         \* per thread: the checks evaluated, in order
    prices_arg,        \* per thread: updateCurrentPrices's argument
    copy_at,           \* per thread: index of the next element to assign
    returned_metrics,  \* per thread: getRiskMetrics's return value
    seen_prices,       \* history: the snapshot getTotalValue read
    entry_prices,      \* history: current_prices_ when the lock was taken
    entry_metrics,     \* history: current_metrics_ when the lock was taken
    last_prices_arg,   \* history: argument of the latest updateCurrentPrices
    last_refresh,      \* history: the state the latest updateRiskMetrics left
    running,           \* the atomic flag  running, cleared by signalHandler
    epc,               \* TradingEngine::run : position of the control loop
    pending,           \* the strategy's pending signals
    batch,             \* processSignals: the signals getSignals returned
    sig_i,             \* processSignals: index of the signal being handled
    sym_i,             \* index of the symbol a loop over getSymbols() is at
    fetched,           \* getCurrentPrices: the local map  prices
    engine_order,      \* processSignals: the order createOrder returned
    submitted,         \* the orders handed to OrderExecutor::submitOrder
    started,           \* OrderExecutor::start has returned
    stop_calls,        \* number of OrderExecutor::stop calls
    signal_when,       \* history: where the loop was when the signal came
    late_iteration,    \* history: an iteration began after the signal
    phases,            \* history: the phases this iteration has finished
    order_log,         \* history: what was done with the latest order
    phase_threw,       \* history: phases of this iteration that threw
    batch_log,         \* history: signals drained and orders checked
    an_order,          \* an Order object its owner works on
    status_log,        \* history: the statuses an_order has had, in order
    last_trade,        \* history: the latest Portfolio::updatePosition call
    valued             \* history: the latest Portfolio::getTotalValue call

riskVars == <<build, limits_, mutex_, current_prices_, current_metrics_,
              portfolio, trades, pc, caller, order, position_value,
              portfolio_value, result, logged, evaluated, prices_arg,
              copy_at, returned_metrics, seen_prices, entry_prices,
              entry_metrics, last_prices_arg, last_refresh>>

engineVars == <<running, epc, pending, batch, sig_i, sym_i, fetched,
                engine_order, submitted, started, stop_calls, signal_when,
                late_iteration, phases, order_log, phase_threw, batch_log>>

domainVars == <<an_order, status_log, last_trade, valued>>

vars == <<riskVars, engineVars, domainVars>>

-----------------------------------------------------------------------------
(* Bounds of the model *)

\* Portfolio::updatePosition is applied at most this many times
MaxTrades == 2

-----------------------------------------------------------------------------
(* Values *)

NoThread == "none"
MainThread == "loop"
FeedThread == "feed"
Threads == {MainThread, FeedThread}

SymbolSeq == <<"AAA", "BBB">>
Symbols == {SymbolSeq[i] : i \in 1..Len(SymbolSeq)}

EmptyMap == << >>

\* std::map operator[] / insert_or_assign
MapPut(m, k, v) == [x \in (DOMAIN m) \cup {k} |-> IF x = k THEN v ELSE m[x]]

Abs(x) == IF x < 0 THEN 0 - x ELSE x

RECURSIVE GCD(_, _)
GCD(a, b) == IF b = 0 THEN a ELSE GCD(b, a % b)

\* the rational n/d in lowest terms with a positive denominator (d # 0)
Rat(n, d) ==
    LET g == GCD(Abs(n), Abs(d))
        s == IF d < 0 THEN 0 - 1 ELSE 1
    IN [num |-> (s * n) \div g, den |-> (s * d) \div g]

\* IEEE  x / y > lim  for integers x, y and a rational lim:
\* x/0 is +inf (x > 0), -inf (x < 0) or NaN (x = 0); NaN > lim is false.
QuotientExceeds(x, y, lim) ==
    IF y = 0 THEN x > 0
    ELSE IF y > 0 THEN x * lim.den > lim.num * y
    ELSE x * lim.den < lim.num * y

-----------------------------------------------------------------------------
(* Domain model: Order, Position, Portfolio *)

\* Order::Order : no argument is validated; price_, filled_quantity_ and
\* status_ take their default member initialisers
NewOrder(symbol, side, type, quantity) ==
    [symbol |-> symbol, side |-> side, type |-> type, quantity |-> quantity,
     price |-> 0, filled_quantity |-> 0, status |-> "PENDING"]

setPrice(o, price) == [o EXCEPT !.price = price]

\* Order::setStatus : status_ = status, whatever the status was
setStatus(o, status) == [o EXCEPT !.status = status]

NoOrder == NewOrder("", "BUY", "MARKET", 0)

\* Position::Position
NewPosition == [quantity |-> 0, average_price |-> Rat(0, 1)]

\* a slip: the average price set to the trade price by every trade
Position_updatePosition_resetsPrice(pos, quantity, price) ==
    [quantity |-> pos.quantity + quantity, average_price |-> Rat(price, 1)]

\* Position::updatePosition : quantity_ - quantity is the old quantity
Position_updatePosition(pos, quantity, price) ==
    LET q == pos.quantity + quantity
        a == pos.average_price
    IN [quantity |-> q,
        average_price |->
            IF q # 0
            THEN Rat(a.num * (q - quantity) + price * quantity * a.den,
                     a.den * q)
            ELSE a]

getMarketValue(pos, current_price) == pos.quantity * current_price

InitialCash == 1000000

\* Portfolio's default member initialisers; no member function assigns
\* total_exposure_, drawdown_, leverage_, daily_pnl_ or concentration_
NewPortfolio ==
    [cash |-> InitialCash, positions |-> EmptyMap, total_exposure |-> 0,
     drawdown |-> 0, leverage |-> 1, daily_pnl |-> 0, concentration |-> 0]

Portfolio_updatePosition(pf, symbol, quantity, price) ==
    LET pos == IF symbol \in DOMAIN pf.positions
               THEN pf.positions[symbol] ELSE NewPosition
    IN [pf EXCEPT !.positions =
            MapPut(pf.positions, symbol,
                   Position_updatePosition(pos, quantity, price))]

updateCash(pf, amount) == [pf EXCEPT !.cash = pf.cash + amount]

\* the loop of Portfolio::getTotalValue over positions_, from its i-th key
RECURSIVE TotalFrom(_, _, _)
TotalFrom(pf, current_prices, i) ==
    IF i > Len(SymbolSeq) THEN 0
    ELSE LET symbol == SymbolSeq[i]
             here == IF /\ symbol \in DOMAIN pf.positions
                        /\ symbol \in DOMAIN current_prices
                     THEN getMarketValue(pf.positions[symbol],
                                         current_prices[symbol])
                     ELSE 0
         IN here + TotalFrom(pf, current_prices, i + 1)

\* a slip: a position without a current price valued at a default price
getTotalValue_defaultPrice(pf, current_prices) ==
    LET filled == [symbol \in Symbols |->
                      IF symbol \in DOMAIN current_prices
                      THEN current_prices[symbol] ELSE 900]
    IN pf.cash + TotalFrom(pf, filled, 1)

getTotalValue(pf, current_prices) == pf.cash + TotalFrom(pf, current_prices, 1)

\* the quantity checkOrderRisk reads through Portfolio::getPosition:
\* position ? position->getQuantity() : 0
HeldQuantity(pf, symbol) ==
    IF symbol \in DOMAIN pf.positions THEN pf.positions[symbol].quantity ELSE 0

-----------------------------------------------------------------------------
(* RiskManager: the five checks of checkOrderRisk *)

\* a slip: the leverage check written before the position-size check
CheckSeq_leverageFirst ==
    <<"leverage", "position_size", "drawdown", "daily_loss", "concentration">>

\* the order of the checks in checkOrderRisk
CheckSeq == <<"position_size", "leverage", "drawdown", "daily_loss",
              "concentration">>

\* a slip: check 1 compared against the leverage limit
PositionSizeExceeded_leverageLimit(pos_value, pf_value, limits) ==
    QuotientExceeds(pos_value, pf_value, limits.max_leverage)

\* check 1:  position_value / portfolio_value > limits_.max_position_size
PositionSizeExceeded(pos_value, pf_value, limits) ==
    QuotientExceeds(pos_value, pf_value, limits.max_position_size)

\* check 2:  total_exposure / portfolio_value > limits_.max_leverage
LeverageExceeded(pf, pos_value, pf_value, limits) ==
    QuotientExceeds(pf.total_exposure + pos_value, pf_value,
                    limits.max_leverage)

\* check 3:  portfolio.getDrawdown() > limits_.max_drawdown
DrawdownExceeded(pf, limits) ==
    pf.drawdown * limits.max_drawdown.den > limits.max_drawdown.num

\* check 4:  portfolio.getDailyPnL() < -limits_.daily_loss_limit
DailyLossExceeded(pf, limits) == pf.daily_pnl < 0 - limits.daily_loss_limit

\* check 5:  new_position_size * order.getPrice() / portfolio_value
\*           > limits_.position_concentration
ConcentrationExceeded(o, pf, pf_value, limits) ==
    QuotientExceeds((HeldQuantity(pf, o.symbol) + o.quantity) * o.price,
                    pf_value, limits.position_concentration)

CheckFails(check, o, pf, pos_value, pf_value, limits) ==
    CASE check = "position_size" ->
             PositionSizeExceeded(pos_value, pf_value, limits)
      [] check = "leverage" ->
             LeverageExceeded(pf, pos_value, pf_value, limits)
      [] check = "drawdown" -> DrawdownExceeded(pf, limits)
      [] check = "daily_loss" -> DailyLossExceeded(pf, limits)
      [] check = "concentration" ->
             ConcentrationExceeded(o, pf, pf_value, limits)

\* what checkOrderRisk logs on the way to  return false
WarnMessage(check) ==
    CASE check = "position_size" -> "Position size limit exceeded"
      [] check = "leverage" -> "Leverage limit exceeded"
      [] check = "drawdown" -> "Drawdown limit exceeded"
      [] check = "daily_loss" -> "Daily loss limit exceeded"
      [] check = "concentration" -> "Position concentration limit exceeded"

ErrorMessage == "Error in risk check"

MetricSeq == <<"drawdown", "leverage", "daily_pnl", "concentration">>

\* the value updateRiskMetrics stores under a metric's name
MetricValue(pf, name) ==
    CASE name = "drawdown" -> pf.drawdown
      [] name = "leverage" -> pf.leverage
      [] name = "daily_pnl" -> pf.daily_pnl
      [] name = "concentration" -> pf.concentration

-----------------------------------------------------------------------------
(* Inputs *)

\* RiskLimits of the spec's example, and three variants of it under which
\* the leverage, drawdown and daily-loss checks can be the first to fail
BaseLimits ==
    [max_position_size |-> Rat(1, 10), max_leverage |-> Rat(2, 1),
     max_drawdown |-> Rat(1, 5), daily_loss_limit |-> 50000,
     position_concentration |-> Rat(3, 20)]

LimitsInputs ==
    {BaseLimits,
     [BaseLimits EXCEPT !.max_leverage = Rat(1, 20)],
     [BaseLimits EXCEPT !.max_drawdown = Rat(0 - 1, 100)],
     [BaseLimits EXCEPT !.daily_loss_limit = 0 - 1]}

OrderInputs ==
    {setPrice(NewOrder(SymbolSeq[1], "BUY", "LIMIT", q), p) :
        q \in {50, 100, 150, 3000}, p \in {0, 900}}

PriceInputs == {[s \in Symbols |-> p] : p \in {900, 1000}}

TradeInputs == [symbol : Symbols, quantity : {50, 100}, price : {900}]

CashInputs == {0 - InitialCash, InitialCash}

\* Locking a std::mutex the calling thread already owns is undefined
\* behaviour.  What a build does with it:
\*   "deadlock"  the thread blocks for ever (a plain pthread mutex);
\*   "throws"    lock() throws std::system_error (an error-checking mutex);
\*   "noop"      lock() and unlock() do nothing (a build without thread
\*               support, in which only the main thread exists).
Builds == {"deadlock", "throws", "noop"}

ThreadRuns(t) == build # "noop" \/ t = MainThread

-----------------------------------------------------------------------------
(* RiskManager *)

Idle == [t \in Threads |-> "idle"]

\* updateRiskMetrics has not run since the portfolio or the price snapshot
\* last changed
NoRefresh == [done |-> FALSE, metrics |-> EmptyMap, prices |-> EmptyMap]

RiskInit ==
    /\ build \in Builds
    /\ limits_ \in LimitsInputs
    /\ mutex_ = NoThread
    /\ current_prices_ = EmptyMap
    /\ current_metrics_ = EmptyMap
    /\ portfolio = NewPortfolio
    /\ trades = 0
    /\ pc = Idle
    /\ caller = [t \in Threads |-> "none"]
    /\ order = [t \in Threads |-> NoOrder]
    /\ position_value = [t \in Threads |-> 0]
    /\ portfolio_value = [t \in Threads |-> 0]
    /\ result = [t \in Threads |-> FALSE]
    /\ logged = [t \in Threads |-> ""]
    /\ evaluated = [t \in Threads |-> << >>]
    /\ prices_arg = [t \in Threads |-> EmptyMap]
    /\ copy_at = [t \in Threads |-> 0]
    /\ returned_metrics = [t \in Threads |-> EmptyMap]
    /\ seen_prices = [t \in Threads |-> EmptyMap]
    /\ entry_prices = [t \in Threads |-> EmptyMap]
    /\ entry_metrics = [t \in Threads |-> EmptyMap]
    /\ last_prices_arg = EmptyMap
    /\ last_refresh = NoRefresh

constVars == <<build, limits_>>
pfVars == <<portfolio, trades>>
corLocals == <<order, position_value, portfolio_value, result, logged,
               evaluated, seen_prices, entry_prices, entry_metrics>>
ucpLocals == <<prices_arg, last_prices_arg>>

\* a slip: a lock that takes the mutex without waiting for its owner
Lock_noWait(t) ==
    IF build = "noop" THEN UNCHANGED mutex_ ELSE mutex_' = t

\* std::lock_guard<std::mutex> lock(mutex_) of a method called from outside
\* the RiskManager: the thread waits until the mutex is free
Lock(t) ==
    IF build = "noop" THEN UNCHANGED mutex_
    ELSE mutex_ = NoThread /\ mutex_' = t

\* ~lock_guard
Unlock(t) ==
    IF build = "noop" THEN UNCHANGED mutex_ ELSE mutex_' = NoThread

\* bool RiskManager::checkOrderRisk(order, portfolio): entry, lock taken
checkOrderRisk_enter(t, o) ==
    /\ pc[t] = "idle"
    /\ Lock(t)
    /\ pc' = [pc EXCEPT ![t] = "cor_value"]
    /\ order' = [order EXCEPT ![t] = o]
    /\ entry_prices' = [entry_prices EXCEPT ![t] = current_prices_]
    /\ entry_metrics' = [entry_metrics EXCEPT ![t] = current_metrics_]
    /\ UNCHANGED <<constVars, pfVars, current_prices_, current_metrics_,
                   caller, position_value, portfolio_value, result, logged,
                   evaluated, seen_prices, ucpLocals, copy_at,
                   returned_metrics, last_refresh>>

\* a slip: the metrics refreshed before the checks instead of after them
checkOrderRisk_value_refreshFirst(t) ==
    /\ pc[t] = "cor_value"
    /\ position_value' =
           [position_value EXCEPT ![t] = order[t].quantity * order[t].price]
    /\ portfolio_value' =
           [portfolio_value EXCEPT
               ![t] = getTotalValue(portfolio, current_prices_)]
    /\ seen_prices' = [seen_prices EXCEPT ![t] = current_prices_]
    /\ current_metrics_' =
           [name \in {MetricSeq[i] : i \in 1..Len(MetricSeq)} |->
               MetricValue(portfolio, name)]
    /\ pc' = [pc EXCEPT ![t] = "cor_checks"]
    /\ UNCHANGED <<constVars, pfVars, mutex_, current_prices_, caller, order,
                   result, logged, evaluated, entry_prices, entry_metrics,
                   ucpLocals, copy_at, returned_metrics, engineVars,
                   last_refresh, domainVars>>

\* position_value and portfolio_value, computed once before the checks
checkOrderRisk_value(t) ==
    /\ pc[t] = "cor_value"
    /\ position_value' =
           [position_value EXCEPT ![t] = order[t].quantity * order[t].price]
    /\ portfolio_value' =
           [portfolio_value EXCEPT
               ![t] = getTotalValue(portfolio, current_prices_)]
    /\ seen_prices' = [seen_prices EXCEPT ![t] = current_prices_]
    /\ pc' = [pc EXCEPT ![t] = "cor_checks"]
    /\ UNCHANGED <<constVars, pfVars, mutex_, current_prices_,
                   current_metrics_, caller, order, result, logged, evaluated,
                   entry_prices, entry_metrics, ucpLocals, copy_at,
                   returned_metrics, engineVars, last_refresh, domainVars>>

\* the next of the five checks: a failing check logs and returns false, the
\* last one passing goes on to  updateRiskMetrics(portfolio)
checkOrderRisk_check(t) ==
    /\ pc[t] = "cor_checks"
    /\ LET check == CheckSeq[Len(evaluated[t]) + 1]
           fails == CheckFails(check, order[t], portfolio,
                               position_value[t], portfolio_value[t], limits_)
       IN /\ evaluated' = [evaluated EXCEPT ![t] = Append(@, check)]
          /\ IF fails
             THEN /\ logged' = [logged EXCEPT ![t] = WarnMessage(check)]
                  /\ result' = [result EXCEPT ![t] = FALSE]
                  /\ pc' = [pc EXCEPT ![t] = "cor_return"]
                  /\ UNCHANGED caller
             ELSE IF Len(evaluated[t]) + 1 = Len(CheckSeq)
             THEN /\ pc' = [pc EXCEPT ![t] = "urm_lock"]
                  /\ caller' = [caller EXCEPT ![t] = "checkOrderRisk"]
                  /\ UNCHANGED <<logged, result>>
             ELSE UNCHANGED <<pc, caller, logged, result>>
    /\ UNCHANGED <<constVars, pfVars, mutex_, current_prices_,
                   current_metrics_, order, position_value, portfolio_value,
                   seen_prices, entry_prices, entry_metrics, ucpLocals,
                   copy_at, returned_metrics, engineVars, last_refresh,
                   domainVars>>

\* void RiskManager::updateRiskMetrics(portfolio), called from outside
updateRiskMetrics_enter(t) ==
    /\ pc[t] = "idle"
    /\ Lock(t)
    /\ pc' = [pc EXCEPT ![t] = "urm_body"]
    /\ caller' = [caller EXCEPT ![t] = "client"]
    /\ copy_at' = [copy_at EXCEPT ![t] = 1]
    /\ UNCHANGED <<constVars, pfVars, current_prices_, current_metrics_,
                   corLocals, ucpLocals, returned_metrics, last_refresh>>

\* updateRiskMetrics called by checkOrderRisk: its lock_guard locks the mutex
\* the thread already owns.  The guard is constructed before the try block
\* of updateRiskMetrics, so a std::system_error thrown by lock() reaches the
\* catch of checkOrderRisk, which logs and returns false.  In the "deadlock"
\* build the thread waits for itself and this step is never enabled.
updateRiskMetrics_relock(t) ==
    /\ pc[t] = "urm_lock"
    /\ build \in {"throws", "noop"}
    /\ IF build = "throws"
       THEN /\ logged' = [logged EXCEPT ![t] = ErrorMessage]
            /\ result' = [result EXCEPT ![t] = FALSE]
            /\ caller' = [caller EXCEPT ![t] = "none"]
            /\ pc' = [pc EXCEPT ![t] = "cor_return"]
            /\ UNCHANGED copy_at
       ELSE /\ pc' = [pc EXCEPT ![t] = "urm_body"]
            /\ copy_at' = [copy_at EXCEPT ![t] = 1]
            /\ UNCHANGED <<logged, result, caller>>
    /\ UNCHANGED <<constVars, pfVars, mutex_, current_prices_,
                   current_metrics_, order, position_value, portfolio_value,
                   evaluated, seen_prices, entry_prices, entry_metrics,
                   ucpLocals, returned_metrics, engineVars, last_refresh,
                   domainVars>>

\* a slip: each metric added to the stored value instead of replacing it
updateRiskMetrics_store_accumulates(t) ==
    /\ pc[t] = "urm_body"
    /\ LET name == MetricSeq[copy_at[t]]
       IN current_metrics_' =
              MapPut(current_metrics_, name,
                     (IF name \in DOMAIN current_metrics_
                      THEN current_metrics_[name] ELSE 0)
                         + MetricValue(portfolio, name))
    /\ IF copy_at[t] = Len(MetricSeq)
       THEN /\ pc' = [pc EXCEPT ![t] = "urm_return"]
            /\ copy_at' = [copy_at EXCEPT ![t] = 0]
       ELSE /\ copy_at' = [copy_at EXCEPT ![t] = @ + 1]
            /\ UNCHANGED pc
    /\ UNCHANGED <<constVars, pfVars, mutex_, current_prices_, caller,
                   corLocals, ucpLocals, returned_metrics, engineVars,
                   last_refresh, domainVars>>

\* current_metrics_["..."] = portfolio.get...() : the four assignments
updateRiskMetrics_store(t) ==
    /\ pc[t] = "urm_body"
    /\ LET name == MetricSeq[copy_at[t]]
       IN current_metrics_' =
              MapPut(current_metrics_, name, MetricValue(portfolio, name))
    /\ IF copy_at[t] = Len(MetricSeq)
       THEN /\ pc' = [pc EXCEPT ![t] = "urm_return"]
            /\ copy_at' = [copy_at EXCEPT ![t] = 0]
       ELSE /\ copy_at' = [copy_at EXCEPT ![t] = @ + 1]
            /\ UNCHANGED pc
    /\ UNCHANGED <<constVars, pfVars, mutex_, current_prices_, caller,
                   corLocals, ucpLocals, returned_metrics, engineVars,
                   last_refresh, domainVars>>

\* updateRiskMetrics returns: its lock_guard unlocks; back in checkOrderRisk
\* the next statement is  return true
updateRiskMetrics_return(t) ==
    /\ pc[t] = "urm_return"
    /\ Unlock(t)
    /\ caller' = [caller EXCEPT ![t] = "none"]
    /\ IF caller[t] = "checkOrderRisk"
       THEN /\ result' = [result EXCEPT ![t] = TRUE]
            /\ pc' = [pc EXCEPT ![t] = "cor_return"]
       ELSE /\ pc' = [pc EXCEPT ![t] = "idle"]
            /\ UNCHANGED result
    /\ last_refresh' =
           [done |-> TRUE, metrics |-> current_metrics_,
            prices |-> current_prices_]
    /\ UNCHANGED <<constVars, pfVars, current_prices_, current_metrics_,
                   order, position_value, portfolio_value, logged, evaluated,
                   seen_prices, entry_prices, entry_metrics, ucpLocals,
                   copy_at, returned_metrics, engineVars, domainVars>>

\* checkOrderRisk returns result[t]: its lock_guard unlocks
checkOrderRisk_leave(t) ==
    /\ pc[t] = "cor_return"
    /\ Unlock(t)
    /\ pc' = [pc EXCEPT ![t] = "idle"]
    /\ order' = [order EXCEPT ![t] = NoOrder]
    /\ position_value' = [position_value EXCEPT ![t] = 0]
    /\ portfolio_value' = [portfolio_value EXCEPT ![t] = 0]
    /\ result' = [result EXCEPT ![t] = FALSE]
    /\ logged' = [logged EXCEPT ![t] = ""]
    /\ evaluated' = [evaluated EXCEPT ![t] = << >>]
    /\ seen_prices' = [seen_prices EXCEPT ![t] = EmptyMap]
    /\ entry_prices' = [entry_prices EXCEPT ![t] = EmptyMap]
    /\ entry_metrics' = [entry_metrics EXCEPT ![t] = EmptyMap]
    /\ UNCHANGED <<constVars, pfVars, current_prices_, current_metrics_,
                   caller, ucpLocals, copy_at, returned_metrics,
                   last_refresh>>

\* std::map<std::string, double> RiskManager::getRiskMetrics() const
getRiskMetrics_enter(t) ==
    /\ pc[t] = "idle"
    /\ Lock(t)
    /\ pc' = [pc EXCEPT ![t] = "grm_copy"]
    /\ UNCHANGED <<constVars, pfVars, current_prices_, current_metrics_,
                   caller, corLocals, ucpLocals, copy_at, returned_metrics,
                   last_refresh>>

\* return current_metrics_ : the copy is made while the lock is held
getRiskMetrics_copy(t) ==
    /\ pc[t] = "grm_copy"
    /\ returned_metrics' = [returned_metrics EXCEPT ![t] = current_metrics_]
    /\ pc' = [pc EXCEPT ![t] = "grm_return"]
    /\ UNCHANGED <<constVars, pfVars, mutex_, current_prices_,
                   current_metrics_, caller, corLocals, ucpLocals, copy_at,
                   engineVars, last_refresh, domainVars>>

getRiskMetrics_return(t) ==
    /\ pc[t] = "grm_return"
    /\ Unlock(t)
    /\ returned_metrics' = [returned_metrics EXCEPT ![t] = EmptyMap]
    /\ pc' = [pc EXCEPT ![t] = "idle"]
    /\ UNCHANGED <<constVars, pfVars, current_prices_, current_metrics_,
                   caller, corLocals, ucpLocals, copy_at, engineVars,
                   last_refresh, domainVars>>

\* a slip: updateCurrentPrices without its lock_guard
updateCurrentPrices_enter_noLock(t, prices) ==
    /\ pc[t] = "idle"
    /\ prices_arg' = [prices_arg EXCEPT ![t] = prices]
    /\ last_prices_arg' = prices
    /\ copy_at' = [copy_at EXCEPT ![t] = 1]
    /\ pc' = [pc EXCEPT ![t] = "ucp_assign"]
    /\ UNCHANGED <<constVars, pfVars, mutex_, current_prices_,
                   current_metrics_, caller, corLocals, returned_metrics,
                   last_refresh>>

\* void RiskManager::updateCurrentPrices(prices)
updateCurrentPrices_enter(t, prices) ==
    /\ pc[t] = "idle"
    /\ Lock(t)
    /\ prices_arg' = [prices_arg EXCEPT ![t] = prices]
    /\ last_prices_arg' = prices
    /\ copy_at' = [copy_at EXCEPT ![t] = 1]
    /\ pc' = [pc EXCEPT ![t] = "ucp_assign"]
    /\ UNCHANGED <<constVars, pfVars, current_prices_, current_metrics_,
                   caller, corLocals, returned_metrics, last_refresh>>

\* current_prices_ = prices : std::map's copy assignment is not atomic; it
\* is taken one key at a time, in key order
updateCurrentPrices_assign(t) ==
    /\ pc[t] = "ucp_assign"
    /\ LET symbol == SymbolSeq[copy_at[t]]
       IN current_prices_' =
              IF symbol \in DOMAIN prices_arg[t]
              THEN MapPut(current_prices_, symbol, prices_arg[t][symbol])
              ELSE [x \in (DOMAIN current_prices_) \ {symbol} |->
                       current_prices_[x]]
    /\ IF copy_at[t] = Len(SymbolSeq)
       THEN /\ pc' = [pc EXCEPT ![t] = "ucp_return"]
            /\ copy_at' = [copy_at EXCEPT ![t] = 0]
       ELSE /\ copy_at' = [copy_at EXCEPT ![t] = @ + 1]
            /\ UNCHANGED pc
    /\ last_refresh' = NoRefresh
    /\ UNCHANGED <<constVars, pfVars, mutex_, current_metrics_, caller,
                   corLocals, ucpLocals, returned_metrics, engineVars,
                   domainVars>>

updateCurrentPrices_return(t) ==
    /\ pc[t] = "ucp_return"
    /\ Unlock(t)
    /\ prices_arg' = [prices_arg EXCEPT ![t] = EmptyMap]
    /\ pc' = [pc EXCEPT ![t] = "idle"]
    /\ UNCHANGED <<constVars, pfVars, current_prices_, current_metrics_,
                   caller, corLocals, last_prices_arg, copy_at,
                   returned_metrics, engineVars, last_refresh, domainVars>>

-----------------------------------------------------------------------------
(* The RiskManager under two client threads *)

\* a thread is inside a method that reads the Portfolio it was handed
UsesPortfolio(t) ==
    pc[t] \in {"cor_value", "cor_checks", "cor_return", "urm_lock",
               "urm_body", "urm_return"}

CallCheckOrderRisk(t) ==
    /\ ThreadRuns(t)
    /\ \E o \in OrderInputs : checkOrderRisk_enter(t, o)
    /\ UNCHANGED <<engineVars, domainVars>>

ReturnCheckOrderRisk(t) ==
    checkOrderRisk_leave(t) /\ UNCHANGED <<engineVars, domainVars>>

CallUpdateRiskMetrics(t) ==
    /\ ThreadRuns(t)
    /\ updateRiskMetrics_enter(t)
    /\ UNCHANGED <<engineVars, domainVars>>

CallGetRiskMetrics(t) ==
    /\ ThreadRuns(t)
    /\ getRiskMetrics_enter(t)
    /\ UNCHANGED <<engineVars, domainVars>>

CallUpdateCurrentPrices(t) ==
    /\ ThreadRuns(t)
    /\ \E p \in PriceInputs : updateCurrentPrices_enter(t, p)
    /\ UNCHANGED <<engineVars, domainVars>>

\* the Portfolio's owner applies a fill between two calls that read it
ApplyTrade ==
    /\ trades < MaxTrades
    /\ \A t \in Threads : ~UsesPortfolio(t)
    /\ \E tr \in TradeInputs :
           portfolio' = Portfolio_updatePosition(portfolio, tr.symbol,
                                                 tr.quantity, tr.price)
    /\ trades' = trades + 1
    /\ last_refresh' = NoRefresh
    /\ UNCHANGED <<constVars, mutex_, current_prices_, current_metrics_, pc,
                   caller, corLocals, ucpLocals, copy_at, returned_metrics,
                   engineVars, domainVars>>

ApplyCash ==
    /\ \A t \in Threads : ~UsesPortfolio(t)
    /\ \E amount \in CashInputs :
           /\ portfolio.cash + amount \in {0, InitialCash}
           /\ portfolio' = updateCash(portfolio, amount)
    /\ last_refresh' = NoRefresh
    /\ UNCHANGED <<constVars, trades, mutex_, current_prices_,
                   current_metrics_, pc, caller, corLocals, ucpLocals,
                   copy_at, returned_metrics, engineVars, domainVars>>

RiskStep(t) ==
    \/ checkOrderRisk_value(t)
    \/ checkOrderRisk_check(t)
    \/ updateRiskMetrics_relock(t)
    \/ updateRiskMetrics_store(t)
    \/ updateRiskMetrics_return(t)
    \/ getRiskMetrics_copy(t)
    \/ getRiskMetrics_return(t)

ClientStep(t) ==
    \/ CallCheckOrderRisk(t)
    \/ ReturnCheckOrderRisk(t)
    \/ CallUpdateRiskMetrics(t)
    \/ CallGetRiskMetrics(t)
    \/ CallUpdateCurrentPrices(t)
    \/ updateCurrentPrices_assign(t)
    \/ updateCurrentPrices_return(t)
    \/ RiskStep(t)

\* no Portfolio::updatePosition call and no Portfolio::getTotalValue call yet
NoTrade ==
    [done |-> FALSE, symbol |-> "", quantity |-> 0, price |-> 0,
     before |-> NewPosition]

NoValue ==
    [done |-> FALSE, prices |-> EmptyMap, total |-> 0, before |-> NewPortfolio]

\* the domain objects while only the RiskManager or the engine is exercised
DomainOff ==
    /\ an_order = NoOrder
    /\ status_log = << >>
    /\ last_trade = NoTrade
    /\ valued = NoValue

\* nothing has been done with an order yet
NoLog ==
    [checks |-> 0, verdict |-> "none", submits |-> 0, checked |-> NoOrder,
     sent |-> NoOrder, prices |-> EmptyMap]

\* the engine's variables while only the RiskManager is exercised
EngineOff ==
    /\ running = TRUE
    /\ epc = "off"
    /\ pending = << >>
    /\ batch = << >>
    /\ sig_i = 0
    /\ sym_i = 0
    /\ fetched = EmptyMap
    /\ engine_order = NoOrder
    /\ submitted = {}
    /\ started = FALSE
    /\ stop_calls = 0
    /\ signal_when = "none"
    /\ late_iteration = FALSE
    /\ phases = << >>
    /\ order_log = NoLog
    /\ phase_threw = {}
    /\ batch_log = [drained |-> 0, checked |-> 0]

Init == RiskInit /\ EngineOff /\ DomainOff

Next ==
    \/ \E t \in Threads : ClientStep(t)
    \/ ApplyTrade
    \/ ApplyCash

Spec == Init /\ [][Next]_vars

-----------------------------------------------------------------------------
(* Properties of the RiskManager, checked under Spec *)

\* checkOrderRisk has fixed its return value and has not yet unlocked
AtReturn(t) == pc[t] = "cor_return"

\* checkOrderRisk has read the price snapshot and is still running
Evaluating(t) ==
    \/ pc[t] \in {"cor_checks", "urm_lock", "cor_return"}
    \/ pc[t] \in {"urm_body", "urm_return"} /\ caller[t] = "checkOrderRisk"

Notional(t) == order[t].quantity * order[t].price

ValueNow == getTotalValue(portfolio, current_prices_)

ClaimedOrder ==
    <<"position_size", "leverage", "drawdown", "daily_loss", "concentration">>

\* the k-th check of the claimed order rejects the order of thread t
FailsAt(t, k) ==
    CheckFails(ClaimedOrder[k], order[t], portfolio, Notional(t), ValueNow,
               limits_)

PassesAllFive(t) == \A k \in 1..Len(ClaimedOrder) : ~FailsAt(t, k)

PortfolioMetrics ==
    [name \in {"drawdown", "leverage", "daily_pnl", "concentration"} |->
        MetricValue(portfolio, name)]

\* C1: an order that passes all five checks is accepted, and the metrics
\* mapping then holds the drawdown, leverage, daily_pnl and concentration of
\* the portfolio that was evaluated.
C1_PassingOrderAccepted ==
    \A t \in Threads :
        (AtReturn(t) /\ PassesAllFive(t)) =>
            (result[t] = TRUE /\ current_metrics_ = PortfolioMetrics)

\* C2: no thread waits for the mutex while it owns the mutex itself.
C2_NoSelfWait ==
    \A t \in Threads : ~(pc[t] = "urm_lock" /\ mutex_ = t)

\* C3: an order whose notional divided by the portfolio's total value at the
\* current price snapshot is greater than max_position_size is rejected.
C3_PositionSizeRejects ==
    \A t \in Threads :
        (AtReturn(t) /\ QuotientExceeds(Notional(t), ValueNow,
                                        limits_.max_position_size))
            => result[t] = FALSE

\* an order only the position-size check rejects has been rejected
C3_Witness ==
    \E t \in Threads :
        /\ AtReturn(t) /\ result[t] = FALSE
        /\ FailsAt(t, 1)
        /\ \A k \in 2..Len(ClaimedOrder) : ~FailsAt(t, k)

\* C4: when checkOrderRisk returns reject, the metrics mapping and the price
\* snapshot are what they were when the call took the lock.
C4_RejectChangesNothing ==
    \A t \in Threads :
        (AtReturn(t) /\ result[t] = FALSE) =>
            /\ current_metrics_ = entry_metrics[t]
            /\ current_prices_ = entry_prices[t]

\* a rejection by a check and one by the internal failure, each with
\* metrics and prices already set by earlier calls
C4_Witness ==
    \E t \in Threads :
        /\ AtReturn(t) /\ result[t] = FALSE
        /\ logged[t] \in {ErrorMessage, WarnMessage("concentration")}
        /\ current_metrics_ = PortfolioMetrics
        /\ current_prices_ \in PriceInputs

\* C5: the checks run in the order position-size, leverage, drawdown,
\* daily-loss, concentration; the rejection cites the first failing check
\* and no check after it is evaluated.
C5_FirstFailingCheckWins ==
    \A t \in Threads :
        AtReturn(t) =>
            \A k \in 1..Len(ClaimedOrder) :
                (FailsAt(t, k) /\ \A j \in 1..(k - 1) : ~FailsAt(t, j)) =>
                    /\ result[t] = FALSE
                    /\ logged[t] = WarnMessage(ClaimedOrder[k])
                    /\ evaluated[t] = SubSeq(ClaimedOrder, 1, k)

\* an order failing both position-size and leverage was rejected citing
\* position-size
C5_Witness ==
    \E t \in Threads :
        /\ AtReturn(t)
        /\ FailsAt(t, 1) /\ FailsAt(t, 2)
        /\ logged[t] = "Position size limit exceeded"
        /\ evaluated[t] = <<"position_size">>

\* C6: whenever the portfolio's total value is zero, checkOrderRisk returns
\* reject, whatever the order (also one of price 0).
C6_ZeroValueRejected ==
    \A t \in Threads :
        (AtReturn(t) /\ portfolio_value[t] = 0) => result[t] = FALSE

\* the orders of the example of C7
ExampleOrder(t, quantity) ==
    /\ limits_ = BaseLimits
    /\ portfolio.cash = InitialCash
    /\ ValueNow = InitialCash
    /\ order[t].quantity = quantity /\ order[t].price = 900

\* C7: an order that passes checks 1-4 and takes its symbol's projected
\* concentration above position_concentration is rejected citing
\* concentration; in the example, 100 at 900 on an empty portfolio is
\* accepted, then 50 at 900 on the 100-share position is accepted, and an
\* order taking the symbol past 15% is rejected citing concentration.
C7_ConcentrationAndExample ==
    \A t \in Threads :
        AtReturn(t) =>
            /\ (FailsAt(t, 5) /\ \A j \in 1..4 : ~FailsAt(t, j)) =>
                   (result[t] = FALSE
                        /\ logged[t] = WarnMessage("concentration"))
            /\ (ExampleOrder(t, 100)
                    /\ HeldQuantity(portfolio, order[t].symbol) = 0)
                   => result[t] = TRUE
            /\ (ExampleOrder(t, 50)
                    /\ HeldQuantity(portfolio, order[t].symbol) = 100)
                   => result[t] = TRUE

\* C8: every evaluation uses one price snapshot, and that snapshot is the
\* complete argument of the latest updateCurrentPrices call (or the initial
\* empty map): never a mixture, never one that changes during the checks.
C8_WholeSnapshot ==
    \A t \in Threads :
        Evaluating(t) =>
            /\ seen_prices[t] = last_prices_arg
            /\ current_prices_ = seen_prices[t]
            /\ portfolio_value[t] = getTotalValue(portfolio, last_prices_arg)

\* an evaluation whose portfolio value rests on both symbols' prices, made
\* by one thread after the snapshot had been replaced
C8_Witness ==
    \E t \in Threads :
        /\ pc[t] = "cor_checks"
        /\ seen_prices[t] \in PriceInputs
        /\ DOMAIN portfolio.positions = Symbols
        /\ portfolio_value[t] > portfolio.cash

\* C9: at most one thread is inside the guarded body of checkOrderRisk,
\* updateRiskMetrics, getRiskMetrics or updateCurrentPrices, and while a
\* thread evaluates an order nobody else changes the prices or the metrics.
C9_MutualExclusion ==
    /\ \A t, u \in Threads : (pc[t] # "idle" /\ pc[u] # "idle") => t = u
    /\ \A t \in Threads :
           pc[t] \in {"cor_value", "cor_checks", "urm_lock"} =>
               /\ current_prices_ = entry_prices[t]
               /\ current_metrics_ = entry_metrics[t]

\* the feed thread evaluates an order, holding the mutex, after other calls
\* have set the prices and the metrics
C9_Witness ==
    /\ pc[FeedThread] = "cor_checks"
    /\ mutex_ = FeedThread
    /\ current_prices_ \in PriceInputs
    /\ current_metrics_ = PortfolioMetrics

\* C19: when updateRiskMetrics is about to return, the metrics mapping holds
\* exactly the portfolio's drawdown, leverage, daily_pnl and concentration;
\* and if neither the portfolio nor the price snapshot was changed since the
\* previous updateRiskMetrics call, the metrics mapping and the price
\* snapshot equal what that call left.
C19_RefreshIdempotent ==
    \A t \in Threads :
        pc[t] = "urm_return" =>
            /\ current_metrics_ = PortfolioMetrics
            /\ last_refresh.done =>
                   /\ current_metrics_ = last_refresh.metrics
                   /\ current_prices_ = last_refresh.prices

\* a second updateRiskMetrics call in a row, made from outside, is about to
\* return
C19_Witness ==
    \E t \in Threads :
        /\ pc[t] = "urm_return"
        /\ caller[t] = "client"
        /\ last_refresh.done
        /\ current_prices_ # EmptyMap

-----------------------------------------------------------------------------
(* TradingEngine: the control loop.  The loop runs on MainThread; the data  *)
(* loader, the strategy, the order executor and the configuration are      *)
(* outside the repository's core: a call into one of them returns or       *)
(* throws a std::exception, and the values it returns are drawn from the   *)
(* input sets below.                                                       *)

\* the strategy holds at most this many pending signals
MaxPending == 2

\* config_->getPositionSizeLimit()
PositionSizeLimit == Rat(1, 10)

\* Strategy::Signal values: strength is the rational num/den
SignalInputs ==
    {[symbol |-> SymbolSeq[1], side |-> "BUY", strength |-> Rat(1, 1)],
     [symbol |-> SymbolSeq[2], side |-> "SELL", strength |-> Rat(1, 2)],
     [symbol |-> SymbolSeq[1], side |-> "SELL", strength |-> Rat(0, 1)]}

\* MarketData::last_price values the data loader returns
LastPriceInputs == {900}

Outcomes == {"returns", "throws"}

engineLocals == <<pending, batch, sig_i, sym_i, fetched, engine_order>>
executorVars == <<submitted, started, stop_calls>>
signalVars == <<signal_when, late_iteration>>
auditVars == <<order_log, phase_threw, batch_log>>

EngineInit ==
    /\ RiskInit
    /\ DomainOff
    /\ running = TRUE
    /\ epc = "start"
    /\ pending = << >>
    /\ batch = << >>
    /\ sig_i = 0
    /\ sym_i = 0
    /\ fetched = EmptyMap
    /\ engine_order = NoOrder
    /\ submitted = {}
    /\ started = FALSE
    /\ stop_calls = 0
    /\ signal_when = "none"
    /\ late_iteration = FALSE
    /\ phases = << >>
    /\ order_log = NoLog
    /\ phase_threw = {}
    /\ batch_log = [drained |-> 0, checked |-> 0]

\* run() has returned or has re-thrown
Finished == epc \in {"returned", "rethrown"}

\* the loop is inside the body of  while (running)
InIteration ==
    epc \notin {"off", "start", "loop", "shutdown", "catch", "returned",
                "rethrown"}

\* signalHandler: running = false.  The handlers are installed by the
\* constructor, so the signal can come at any point of run().
signalHandler ==
    /\ running
    /\ ~Finished
    /\ running' = FALSE
    /\ signal_when' = IF InIteration THEN "mid" ELSE "between"
    /\ UNCHANGED <<riskVars, epc, pending, batch, sig_i, sym_i, fetched,
                   engine_order, executorVars, late_iteration, phases,
                   auditVars, domainVars>>

\* order_executor_->start()
run_start ==
    /\ epc = "start"
    /\ \E outcome \in Outcomes :
           IF outcome = "returns"
           THEN started' = TRUE /\ epc' = "loop"
           ELSE started' = FALSE /\ epc' = "catch"
    /\ UNCHANGED <<riskVars, running, pending, batch, sig_i, sym_i, fetched,
                   engine_order, submitted, stop_calls, signalVars, phases,
                   auditVars, domainVars>>

\* while (running)
run_loop ==
    /\ epc = "loop"
    /\ IF running
       THEN /\ epc' = "pmd_load"
            /\ sym_i' = 1
            /\ phases' = << >>
            /\ phase_threw' = {}
            /\ late_iteration' = (late_iteration \/ signal_when # "none")
       ELSE /\ epc' = "shutdown"
            /\ UNCHANGED <<sym_i, phases, late_iteration, phase_threw>>
    /\ UNCHANGED <<riskVars, running, pending, batch, sig_i, fetched,
                   engine_order, executorVars, signal_when, order_log,
                   domainVars, batch_log>>

\* processMarketData: data_loader_->loadMarketData(symbol); an exception
\* ends the phase in its catch block
processMarketData_load ==
    /\ epc = "pmd_load"
    /\ \E outcome \in Outcomes :
           IF outcome = "returns"
           THEN epc' = "pmd_feed" /\ UNCHANGED <<sym_i, phases, phase_threw>>
           ELSE /\ epc' = "ps_get"
                /\ sym_i' = 0
                /\ phases' = Append(phases, "market_data")
                /\ phase_threw' = phase_threw \cup {"market_data"}
    /\ UNCHANGED <<riskVars, running, pending, batch, sig_i, fetched,
                   engine_order, executorVars, signalVars, order_log,
                   domainVars, batch_log>>

\* processMarketData: strategy_->onMarketData(market_data); the strategy may
\* add a signal to those it has pending
processMarketData_feed ==
    /\ epc = "pmd_feed"
    /\ \E outcome \in Outcomes :
           IF outcome = "returns"
           THEN /\ \/ UNCHANGED pending
                   \/ /\ Len(pending) < MaxPending
                      /\ \E sig \in SignalInputs :
                             pending' = Append(pending, sig)
                /\ IF sym_i = Len(SymbolSeq)
                   THEN /\ epc' = "ps_get"
                        /\ sym_i' = 0
                        /\ phases' = Append(phases, "market_data")
                   ELSE /\ epc' = "pmd_load"
                        /\ sym_i' = sym_i + 1
                        /\ UNCHANGED phases
                /\ UNCHANGED phase_threw
           ELSE /\ epc' = "ps_get"
                /\ sym_i' = 0
                /\ phases' = Append(phases, "market_data")
                /\ phase_threw' = phase_threw \cup {"market_data"}
                /\ UNCHANGED pending
    /\ UNCHANGED <<riskVars, running, batch, sig_i, fetched, engine_order,
                   executorVars, signalVars, order_log, domainVars,
                   batch_log>>

\* processSignals: auto signals = strategy_->getSignals(), which drains the
\* strategy's pending signals
processSignals_get ==
    /\ epc = "ps_get"
    /\ \E outcome \in Outcomes :
           IF outcome = "returns"
           THEN /\ batch' = pending
                /\ pending' = << >>
                /\ sig_i' = 1
                /\ epc' = "ps_next"
                /\ batch_log' = [drained |-> Len(pending), checked |-> 0]
                /\ UNCHANGED <<phases, phase_threw>>
           ELSE /\ epc' = "urm_call"
                /\ phases' = Append(phases, "signals")
                /\ phase_threw' = phase_threw \cup {"signals"}
                /\ batch_log' = [drained |-> 0, checked |-> 0]
                /\ UNCHANGED <<batch, pending, sig_i>>
    /\ UNCHANGED <<riskVars, running, sym_i, fetched, engine_order,
                   executorVars, signalVars, order_log, domainVars>>

\* processSignals: for (const auto& signal : signals)
processSignals_next ==
    /\ epc = "ps_next"
    /\ IF sig_i <= Len(batch)
       THEN /\ epc' = "ps_prices"
            /\ sym_i' = 1
            /\ fetched' = EmptyMap
            /\ UNCHANGED <<batch, sig_i, phases>>
       ELSE /\ epc' = "urm_call"
            /\ batch' = << >>
            /\ sig_i' = 0
            /\ phases' = Append(phases, "signals")
            /\ UNCHANGED <<sym_i, fetched>>
    /\ UNCHANGED <<riskVars, running, pending, engine_order, executorVars,
                   signalVars, auditVars, domainVars>>

\* the catch block of processSignals: the rest of the batch is dropped
LeaveSignalsByCatch ==
    /\ epc' = "urm_call"
    /\ batch' = << >>
    /\ sig_i' = 0
    /\ sym_i' = 0
    /\ fetched' = EmptyMap
    /\ engine_order' = NoOrder
    /\ phases' = Append(phases, "signals")
    /\ phase_threw' = phase_threw \cup {"signals"}

\* getCurrentPrices: prices[symbol] = loadMarketData(symbol).last_price
getCurrentPrices_load ==
    /\ epc = "ps_prices"
    /\ \E outcome \in Outcomes :
           IF outcome = "returns"
           THEN /\ \E price \in LastPriceInputs :
                       fetched' = MapPut(fetched, SymbolSeq[sym_i], price)
                /\ IF sym_i = Len(SymbolSeq)
                   THEN epc' = "ps_create" /\ sym_i' = 0
                   ELSE epc' = "ps_prices" /\ sym_i' = sym_i + 1
                /\ UNCHANGED <<batch, sig_i, engine_order, phases,
                                phase_threw>>
           ELSE LeaveSignalsByCatch
    /\ UNCHANGED <<riskVars, running, pending, executorVars, signalVars,
                   order_log, domainVars, batch_log>>

\* a slip: the order sized without the signal's strength
calculateOrderSize_ignoresStrength(sig, prices) ==
    (getTotalValue(portfolio, prices) * PositionSizeLimit.num)
        \div PositionSizeLimit.den

\* calculateOrderSize: portfolio_value * getPositionSizeLimit() * strength
\* (an integer for the inputs used here)
calculateOrderSize(sig, prices) ==
    (getTotalValue(portfolio, prices) * PositionSizeLimit.num
        * sig.strength.num) \div (PositionSizeLimit.den * sig.strength.den)

\* a slip: the order priced at the symbol's last price
createOrder_setsPrice ==
    /\ epc = "ps_create"
    /\ LET sig == batch[sig_i]
       IN engine_order' =
              setPrice(NewOrder(sig.symbol, sig.side, "MARKET",
                                calculateOrderSize(sig, fetched)),
                       fetched[sig.symbol])
    /\ fetched' = EmptyMap
    /\ order_log' = [NoLog EXCEPT !.prices = fetched]
    /\ epc' = "ps_check"
    /\ UNCHANGED <<riskVars, running, pending, batch, sig_i, sym_i,
                   executorVars, signalVars, phases, phase_threw, domainVars,
                   batch_log>>

\* createOrder: a MARKET order of the signal's symbol and side; setPrice is
\* not called
createOrder ==
    /\ epc = "ps_create"
    /\ LET sig == batch[sig_i]
       IN engine_order' = NewOrder(sig.symbol, sig.side, "MARKET",
                                   calculateOrderSize(sig, fetched))
    /\ fetched' = EmptyMap
    /\ order_log' = [NoLog EXCEPT !.prices = fetched]
    /\ epc' = "ps_check"
    /\ UNCHANGED <<riskVars, running, pending, batch, sig_i, sym_i,
                   executorVars, signalVars, phases, phase_threw, domainVars,
                   batch_log>>

\* processSignals: risk_manager_->checkOrderRisk(*order, portfolio_) called
processSignals_check ==
    /\ epc = "ps_check"
    /\ checkOrderRisk_enter(MainThread, engine_order)
    /\ epc' = "ps_checking"
    /\ batch_log' = [batch_log EXCEPT !.checked = @ + 1]
    /\ order_log' = [order_log EXCEPT !.checks = @ + 1,
                                     !.checked = engine_order]
    /\ UNCHANGED <<running, pending, batch, sig_i, sym_i, fetched,
                   engine_order, executorVars, signalVars, phases,
                   phase_threw, domainVars>>

\* a slip: the order is submitted whatever checkOrderRisk returned
processSignals_checked_submitsAnyway ==
    /\ epc = "ps_checking"
    /\ checkOrderRisk_leave(MainThread)
    /\ order_log' = [order_log EXCEPT
           !.verdict = IF result[MainThread] THEN "accept" ELSE "reject"]
    /\ epc' = "ps_submit"
    /\ UNCHANGED <<sig_i, engine_order>>
    /\ UNCHANGED <<running, pending, batch, sym_i, fetched, executorVars,
                   signalVars, phases, phase_threw, domainVars, batch_log>>

\* processSignals: checkOrderRisk has returned; if (...) submitOrder(order)
processSignals_checked ==
    /\ epc = "ps_checking"
    /\ checkOrderRisk_leave(MainThread)
    /\ order_log' = [order_log EXCEPT
           !.verdict = IF result[MainThread] THEN "accept" ELSE "reject"]
    /\ IF result[MainThread]
       THEN epc' = "ps_submit" /\ UNCHANGED <<sig_i, engine_order>>
       ELSE epc' = "ps_next" /\ sig_i' = sig_i + 1 /\ engine_order' = NoOrder
    /\ UNCHANGED <<running, pending, batch, sym_i, fetched, executorVars,
                   signalVars, phases, phase_threw, domainVars, batch_log>>

\* processSignals: order_executor_->submitOrder(order)
processSignals_submit ==
    /\ epc = "ps_submit"
    /\ submitted' = submitted \cup {engine_order}
    /\ order_log' = [order_log EXCEPT !.submits = @ + 1,
                                     !.sent = engine_order]
    /\ \E outcome \in Outcomes :
           IF outcome = "returns"
           THEN /\ epc' = "ps_next"
                /\ sig_i' = sig_i + 1
                /\ engine_order' = NoOrder
                /\ UNCHANGED <<batch, sym_i, fetched, phases,
                                phase_threw>>
           ELSE LeaveSignalsByCatch
    /\ UNCHANGED <<riskVars, running, pending, started, stop_calls,
                   signalVars, domainVars, batch_log>>

\* TradingEngine::updateRiskMetrics: risk_manager_->updateRiskMetrics called
engine_updateRiskMetrics ==
    /\ epc = "urm_call"
    /\ updateRiskMetrics_enter(MainThread)
    /\ epc' = "urm_wait"
    /\ UNCHANGED <<running, engineLocals, executorVars, signalVars, phases,
                   auditVars, domainVars>>

\* TradingEngine::updateRiskMetrics: risk_manager_->getRiskMetrics() called
\* once risk_manager_->updateRiskMetrics has returned
engine_getRiskMetrics ==
    /\ epc = "urm_wait"
    /\ getRiskMetrics_enter(MainThread)
    /\ epc' = "grm_wait"
    /\ UNCHANGED <<running, engineLocals, executorVars, signalVars, phases,
                   auditVars, domainVars>>

\* TradingEngine::updateRiskMetrics returns once getRiskMetrics has returned
engine_metricsDone ==
    /\ epc = "grm_wait"
    /\ pc[MainThread] = "idle"
    /\ epc' = "sleep"
    /\ phases' = Append(phases, "metrics")
    /\ UNCHANGED <<riskVars, running, engineLocals, executorVars, signalVars,
                   auditVars, domainVars>>

\* std::this_thread::sleep_for(100ms), then back to the loop test
run_sleep ==
    /\ epc = "sleep"
    /\ epc' = "loop"
    /\ UNCHANGED <<riskVars, running, engineLocals, executorVars, signalVars,
                   phases, auditVars, domainVars>>

\* shutdown() after the loop: order_executor_->stop(); an exception it
\* throws is caught by the catch block of run()
run_shutdown ==
    /\ epc = "shutdown"
    /\ stop_calls' = stop_calls + 1
    /\ \E outcome \in Outcomes :
           epc' = IF outcome = "returns" THEN "returned" ELSE "catch"
    /\ UNCHANGED <<riskVars, running, engineLocals, submitted, started,
                   signalVars, phases, auditVars, domainVars>>

\* the catch block of run(): shutdown(), then throw; an exception stop()
\* throws here leaves run() as well
run_catch ==
    /\ epc = "catch"
    /\ stop_calls' = stop_calls + 1
    /\ epc' = "rethrown"
    /\ UNCHANGED <<riskVars, running, engineLocals, submitted, started,
                   signalVars, phases, auditVars, domainVars>>

EngineStep ==
    \/ run_start
    \/ run_loop
    \/ processMarketData_load
    \/ processMarketData_feed
    \/ processSignals_get
    \/ processSignals_next
    \/ getCurrentPrices_load
    \/ createOrder
    \/ processSignals_check
    \/ processSignals_checked
    \/ processSignals_submit
    \/ engine_updateRiskMetrics
    \/ engine_getRiskMetrics
    \/ engine_metricsDone
    \/ run_sleep
    \/ run_shutdown
    \/ run_catch

EngineNext ==
    \/ signalHandler
    \/ EngineStep
    \/ RiskStep(MainThread)

SpecEngine == EngineInit /\ [][EngineNext]_vars

-----------------------------------------------------------------------------
(* Properties of the control loop, checked under SpecEngine *)

AllPhases == <<"market_data", "signals", "metrics">>

\* the loop thread has a step to take
LoopCanStep == ENABLED (EngineStep \/ RiskStep(MainThread))

\* C10: when the signal arrives while an iteration is in progress, that
\* iteration runs its remaining phases to completion (the loop thread is
\* never stuck before run() ends), no further iteration starts, and stop()
\* is invoked only after the iteration and exactly once.
C10_SignalEndsAfterIteration ==
    signal_when = "mid" =>
        /\ ~late_iteration
        /\ stop_calls <= 1
        /\ stop_calls = 1 => phases = AllPhases
        /\ Finished => stop_calls = 1
        /\ ~Finished => LoopCanStep

\* C11: however the loop of run() ends, OrderExecutor::stop is invoked exactly
\* once before run() returns or re-throws, and never twice.
C11_StopExactlyOnce ==
    /\ stop_calls <= 1
    /\ Finished => stop_calls = 1

\* C13: an Order never has a quantity of zero or less; in particular the
\* order the control loop hands to checkOrderRisk has quantity > 0.
C13_OrderQuantityPositive ==
    epc \in {"ps_check", "ps_checking", "ps_submit"} =>
        engine_order.quantity > 0

\* C12: in the control loop submitOrder is called for an order if and only
\* if checkOrderRisk returned accept for that same order: a rejected order is
\* never submitted, an accepted one is submitted next, and each constructed
\* order is passed to checkOrderRisk at most once.
C12_SubmitIffAccepted ==
    /\ order_log.checks <= 1
    /\ order_log.submits <= 1
    /\ epc = "ps_checking" => order[MainThread] = engine_order
    /\ epc = "ps_submit" => order_log.verdict = "accept"
    /\ order_log.submits = 1 =>
           /\ order_log.verdict = "accept"
           /\ order_log.sent = order_log.checked
    /\ order_log.verdict = "reject" => order_log.submits = 0
    /\ (order_log.verdict = "accept" /\ epc # "ps_submit") =>
           order_log.submits = 1

\* an accepted order has been handed to submitOrder
C12_Witness ==
    /\ order_log.verdict = "accept"
    /\ order_log.submits = 1
    /\ order_log.sent \in submitted

\* C20: an exception thrown in the market-data phase or in the signal phase
\* is caught at that phase: the engine does not shut down, the phases run
\* in order, each at most once, the loop thread always has a next step, and
\* at the end of every iteration all three phases, the metrics refresh
\* among them, have run exactly once.
C20_PhaseExceptionIsolated ==
    InIteration =>
        /\ stop_calls = 0
        /\ \E n \in 0..Len(AllPhases) : phases = SubSeq(AllPhases, 1, n)
        /\ epc = "sleep" => phases = AllPhases
        /\ LoopCanStep

-----------------------------------------------------------------------------
(* An Order exercised directly by its owner: constructed from any           *)
(* arguments, then any sequence of setStatus and setPrice calls.            *)

\* Order::setStatus is called at most this many times
MaxStatusCalls == 2

\* enum class OrderStatus
OrderStatuses ==
    {"PENDING", "FILLED", "PARTIALLY_FILLED", "CANCELLED", "REJECTED"}

OrderCtorInputs ==
    {NewOrder(symbol, side, type, quantity) :
        symbol \in Symbols, side \in {"BUY", "SELL"},
        type \in {"MARKET", "LIMIT"}, quantity \in {50, 100}}

\* the RiskManager and the engine are not exercised
OthersOff ==
    /\ RiskInit
    /\ build = "noop"
    /\ limits_ = BaseLimits
    /\ EngineOff

OrderInit ==
    /\ OthersOff
    /\ an_order \in OrderCtorInputs
    /\ status_log = <<an_order.status>>
    /\ last_trade = NoTrade
    /\ valued = NoValue

Order_setStatus ==
    /\ Len(status_log) <= MaxStatusCalls
    /\ \E status \in OrderStatuses :
           /\ an_order' = setStatus(an_order, status)
           /\ status_log' = Append(status_log, status)
    /\ UNCHANGED <<riskVars, engineVars, last_trade, valued>>

Order_setPrice ==
    /\ \E price \in {0, 900} : an_order' = setPrice(an_order, price)
    /\ UNCHANGED <<riskVars, engineVars, status_log, last_trade, valued>>

OrderNext == Order_setStatus \/ Order_setPrice

SpecOrder == OrderInit /\ [][OrderNext]_vars

\* filled, cancelled and rejected are the terminal statuses
TerminalStatuses == {"FILLED", "CANCELLED", "REJECTED"}

\* C14: once an Order's status is filled, cancelled or rejected, no later
\* setStatus call changes it to a different status.
C14_TerminalStatusIsSink ==
    \A i, j \in DOMAIN status_log :
        (i < j /\ status_log[i] \in TerminalStatuses) =>
            status_log[j] = status_log[i]

-----------------------------------------------------------------------------
(* A Portfolio exercised directly by its owner: fills applied through       *)
(* updatePosition, cash movements, and getTotalValue under any price map.   *)

\* fills that open, increase, reduce, close and flip a position
FillInputs ==
    [symbol : Symbols, quantity : {0 - 150, 0 - 50, 50, 100},
     price : {900, 1000}]

\* price maps with any subset of the symbols as keys
PriceMapInputs == UNION {[S -> {900, 1000}] : S \in SUBSET Symbols}

riskOthers ==
    <<build, limits_, mutex_, current_prices_, current_metrics_, pc, caller,
      order, position_value, portfolio_value, result, logged, evaluated,
      prices_arg, copy_at, returned_metrics, seen_prices, entry_prices,
      entry_metrics, last_prices_arg, last_refresh>>

PortfolioInit == OthersOff /\ DomainOff

\* portfolio.updatePosition(symbol, quantity, price)
Portfolio_trade ==
    /\ trades < MaxTrades
    /\ \E tr \in FillInputs :
           /\ portfolio' = Portfolio_updatePosition(portfolio, tr.symbol,
                                                    tr.quantity, tr.price)
           /\ last_trade' =
                  [done |-> TRUE, symbol |-> tr.symbol,
                   quantity |-> tr.quantity, price |-> tr.price,
                   before |-> IF tr.symbol \in DOMAIN portfolio.positions
                              THEN portfolio.positions[tr.symbol]
                              ELSE NewPosition]
    /\ trades' = trades + 1
    /\ valued' = NoValue
    /\ UNCHANGED <<riskOthers, engineVars, an_order, status_log>>

\* portfolio.updateCash(amount)
Portfolio_cash ==
    /\ \E amount \in CashInputs :
           /\ portfolio.cash + amount \in {0, InitialCash}
           /\ portfolio' = updateCash(portfolio, amount)
    /\ valued' = NoValue
    /\ UNCHANGED <<riskOthers, engineVars, trades, an_order, status_log,
                   last_trade>>

\* portfolio.getTotalValue(prices) : a const member function
Portfolio_value ==
    /\ \E prices \in PriceMapInputs :
           valued' = [done |-> TRUE, prices |-> prices,
                      total |-> getTotalValue(portfolio, prices),
                      before |-> portfolio]
    /\ UNCHANGED <<riskVars, engineVars, an_order, status_log, last_trade>>

PortfolioNext == Portfolio_trade \/ Portfolio_cash \/ Portfolio_value

SpecPortfolio == PortfolioInit /\ [][PortfolioNext]_vars

-----------------------------------------------------------------------------
(* Properties of Position and Portfolio, checked under SpecPortfolio *)

\* the position the latest fill was applied to, and its quantity before and
\* after according to  new = old + delta
TradedPosition == portfolio.positions[last_trade.symbol]
OldQuantity == last_trade.before.quantity
NetQuantity == last_trade.before.quantity + last_trade.quantity

\* C15: a fill that flips a long position to short, or a short one to long,
\* leaves net quantity old + delta and sets the average price to exactly the
\* fill's price.
C15_FlipResetsAveragePrice ==
    (last_trade.done /\ OldQuantity * NetQuantity < 0) =>
        /\ TradedPosition.quantity = NetQuantity
        /\ TradedPosition.average_price = Rat(last_trade.price, 1)

\* C16: a fill that reduces a position without closing or flipping it leaves
\* the average price unchanged, and a fill that exactly closes the position
\* leaves net quantity 0.
C16_ReduceKeepsAveragePrice ==
    last_trade.done =>
        /\ (OldQuantity * NetQuantity > 0
               /\ Abs(NetQuantity) < Abs(OldQuantity)) =>
              TradedPosition.average_price = last_trade.before.average_price
        /\ (OldQuantity # 0 /\ NetQuantity = 0) =>
              TradedPosition.quantity = 0

\* C17: a fill that increases a position in its own direction, the first
\* fill of an empty position included, sets net quantity to old + delta and
\* the average price to (oldAverage * old + price * delta) / (old + delta).
C17_IncreaseBlendsAveragePrice ==
    (last_trade.done /\ OldQuantity * last_trade.quantity >= 0) =>
        LET a == last_trade.before.average_price
            b == TradedPosition.average_price
        IN /\ TradedPosition.quantity = NetQuantity
           /\ b.num * a.den * NetQuantity =
                  (a.num * OldQuantity
                      + last_trade.price * last_trade.quantity * a.den)
                  * b.den

\* a long position bought at one price is increased at another
C17_Witness ==
    /\ last_trade.done
    /\ OldQuantity > 0
    /\ last_trade.quantity > 0
    /\ last_trade.before.average_price # Rat(last_trade.price, 1)

\* the sum of quantity * price over the symbols in S
RECURSIVE PricedSum(_, _, _)
PricedSum(pf, prices, S) ==
    IF S = {} THEN 0
    ELSE LET symbol == CHOOSE x \in S : TRUE
         IN pf.positions[symbol].quantity * prices[symbol]
                + PricedSum(pf, prices, S \ {symbol})

\* C18: getTotalValue(priceMap) is cash plus the sum of quantity * price over
\* exactly the held positions whose symbol is a key of priceMap, and the
\* call leaves the portfolio as it was.
C18_TotalValueOverPricedPositions ==
    valued.done =>
        /\ valued.total =
               portfolio.cash
                   + PricedSum(portfolio, valued.prices,
                               (DOMAIN portfolio.positions)
                                   \cap (DOMAIN valued.prices))
        /\ portfolio = valued.before

\* a portfolio valued with one held position priced and another one not
C18_Witness ==
    /\ valued.done
    /\ \E s \in DOMAIN portfolio.positions :
           s \notin DOMAIN valued.prices /\ portfolio.positions[s].quantity # 0
    /\ \E s \in DOMAIN portfolio.positions :
           s \in DOMAIN valued.prices /\ portfolio.positions[s].quantity # 0

-----------------------------------------------------------------------------
(* Further properties of the control loop, checked under SpecEngine *)

\* checkOrderRisk, called by the loop, has read the price snapshot
LoopEvaluates ==
    /\ epc = "ps_checking"
    /\ pc[MainThread] \in {"cor_checks", "cor_return", "urm_lock", "urm_body",
                            "urm_return"}

\* C21: the loop has fetched the last price of every configured symbol by
\* the time it calls checkOrderRisk (getCurrentPrices runs for each order),
\* so the price snapshot that evaluation reads has a price for every
\* configured symbol.
C21_SnapshotKeptCurrent ==
    LoopEvaluates => Symbols \subseteq DOMAIN seen_prices[MainThread]

\* C25: OrderExecutor::stop is invoked only in a run in which
\* OrderExecutor::start has returned.
C25_StopOnlyAfterStart == stop_calls > 0 => started

\* the loop holds the order it built from the signal  batch[sig_i]
HoldsOrder == epc \in {"ps_check", "ps_checking", "ps_submit"}

\* C22: the order built for a drained signal is a MARKET order of the
\* signal's symbol and side, and its quantity is getTotalValue(prices fetched
\* for all configured symbols) * position-size fraction * signal strength.
C22_OrderSizedFromSignal ==
    HoldsOrder =>
        LET sig == batch[sig_i]
        IN /\ engine_order.symbol = sig.symbol
           /\ engine_order.side = sig.side
           /\ engine_order.type = "MARKET"
           /\ DOMAIN order_log.prices = Symbols
           /\ engine_order.quantity * PositionSizeLimit.den * sig.strength.den
                  = getTotalValue(portfolio, order_log.prices)
                        * PositionSizeLimit.num * sig.strength.num

\* an order built from a signal of strength 1/2
C22_Witness ==
    /\ HoldsOrder
    /\ batch[sig_i].strength = Rat(1, 2)
    /\ engine_order.quantity > 0

\* C24: an order the loop passes to checkOrderRisk has price 0, so its
\* notional is 0, and with a positive portfolio value neither the
\* position-size check nor the concentration check rejects it.
C24_LoopOrdersUnpriced ==
    epc = "ps_checking" =>
        /\ order[MainThread].price = 0
        /\ pc[MainThread] # "cor_value" => position_value[MainThread] = 0
        /\ (pc[MainThread] = "cor_return" /\ portfolio_value[MainThread] > 0) =>
               logged[MainThread] \notin {WarnMessage("position_size"),
                                          WarnMessage("concentration")}

\* an order of positive quantity from the loop has been through all five
\* checks
C24_Witness ==
    /\ epc = "ps_checking"
    /\ pc[MainThread] = "cor_return"
    /\ order[MainThread].quantity > 0
    /\ portfolio_value[MainThread] > 0
    /\ Len(evaluated[MainThread]) = Len(CheckSeq)

\* the signal phase of the current iteration is over
SignalsPhaseOver == epc \in {"urm_call", "urm_wait", "grm_wait", "sleep"}

\* C26: when handling one signal of a drained batch throws, only that signal
\* is lost: by the end of the signal phase every other signal of the batch
\* has been turned into an order and passed to checkOrderRisk.
C26_OnlyFailingSignalLost ==
    SignalsPhaseOver =>
        batch_log.checked >=
            batch_log.drained - (IF "signals" \in phase_threw THEN 1 ELSE 0)

-----------------------------------------------------------------------------
(* The control loop when every call into a collaborator returns.  The loop  *)
(* thread is scheduled by the operating system: a step it can take is       *)
(* eventually taken (weak fairness).  The signal need not ever come.        *)

\* a step of the loop thread in which no collaborator call throws
ReturningStep ==
    /\ EngineStep \/ RiskStep(MainThread)
    /\ phase_threw' = {}
    /\ epc' # "catch"

EngineLiveNext == signalHandler \/ ReturningStep

SpecEngineLive ==
    EngineInit /\ [][EngineLiveNext]_vars /\ WF_vars(ReturningStep)

\* C23: once the signal has cleared the running flag, the engine eventually
\* leaves the loop, invokes stop() and run() returns.
C23_SignalLeadsToStopped ==
    (~running) ~> (epc = "returned" /\ stop_calls = 1)

====
